---- MODULE Spec2Model ----
(***************************************************************************)
(* Model of the firmware copy helper of ESP32-WeatherStation-Boat:         *)
(*   scripts/copy_firmware.py   (standalone command, returns a count and   *)
(*                               exits with a status)                     *)
(*   firmware/copy_firmware.py  (PlatformIO post-build action)            *)
(* The state is the part of the file system the scripts touch (the build   *)
(* directory with its two artifacts, the firmware/ directory with its two  *)
(* copies), the position of one run in the script, the console output and  *)
(* the exit status.  Runs are synchronous: the environment changes the     *)
(* file system only between runs.                                          *)
(***************************************************************************)
EXTENDS Integers, Sequences, FiniteSets, TLC

\* ------------------------------------------------------------- bounds
\* Longest file content, in bytes.
MaxLen == 1

ByteValues == {0, 1}

Contents == UNION {[1..n -> ByteValues] : n \in 0..MaxLen}

\* ------------------------------------------------------------- constants
\* files_to_copy, in the order of the list literal.
files_to_copy == <<"firmware.bin", "spiffs.bin">>

Files == {files_to_copy[k] : k \in 1..Len(files_to_copy)}

Variants == {"standalone", "postbuild"}

\* Why a write to firmware/ can fail: nothing, permission denied, disk full.
DstModes == {"ok", "denied", "nospace"}

\* A path that does not name a file.
NoFile == [exists |-> FALSE, data |-> <<>>, readable |-> TRUE]

NoDst == [f \in Files |-> NoFile]

NoPre == [fwDir |-> "absent", dst |-> NoDst]

NoPrev == [valid |-> FALSE, status |-> "idle", dst |-> NoDst, fwDir |-> "absent",
           count |-> 0, exit |-> -1, out |-> <<>>]

VARIABLES
    buildDir,       \* TRUE iff <project>/.pio/build/<env> is a directory
    src,            \* src[f]: the file <build_dir>/f
    fwDir,          \* <project>/firmware: "absent", "dir" or "file"
    dst,            \* dst[f]: the file <project>/firmware/f
    dstMode,        \* how writes into firmware/ currently behave
    pc,             \* position of the current run
    variant,        \* which script the current run executes
    i,              \* index of the loop over files_to_copy
    success_count,  \* the local variable success_count
    out,            \* lines printed by the current run
    exitStatus,     \* process exit status, -1 while there is none
    mkdirs,         \* number of firmware_dir.mkdir calls of the current run
    pre,            \* firmware/ as it was when the current run started
    prev            \* outcome of the run just before the current one

vars == <<buildDir, src, fwDir, dst, dstMode, pc, variant, i, success_count,
          out, exitStatus, mkdirs, pre, prev>>

envVars == <<buildDir, src, fwDir, dst, dstMode>>

\* ------------------------------------------------------------- report lines
Line(kind, file, size, cause) ==
    [kind |-> kind, file |-> file, size |-> size, cause |-> cause]

RuleLine == Line("rule", "", 0, "")

BannerLine == Line("banner", "", 0, "")

CopiedLine(f, n) == Line("copied", f, n, "")

NotFoundLine(f) == Line("notfound", f, 0, "")

ErrorLine(f, cause) == Line("error", f, 0, cause)

SummaryLine(n) == Line("summary", "", n, "")

ReadyLine == Line("ready", "", 0, "")

\* ------------------------------------------------------------- library calls
\* Path construction: pure path arithmetic, nothing is looked up on disk.
ResolveChecksBuildDir(bd) == ~bd

ResolveRaises(bd) == FALSE

\* firmware_dir.mkdir(exist_ok=True), parents=False, under an existing project.
MkdirNoExistOk(fw, d) ==
    IF fw = "absent"
    THEN [raised |-> FALSE, fwDir |-> "dir", dst |-> NoDst]
    ELSE [raised |-> TRUE, fwDir |-> fw, dst |-> d]

MkdirRecreate(fw, d) ==
    IF fw = "file"
    THEN [raised |-> TRUE, fwDir |-> fw, dst |-> d]
    ELSE [raised |-> FALSE, fwDir |-> "dir", dst |-> NoDst]

MkdirEffect(fw, d) ==
    CASE fw = "absent" -> [raised |-> FALSE, fwDir |-> "dir", dst |-> NoDst]
      [] fw = "dir"    -> [raised |-> FALSE, fwDir |-> "dir", dst |-> d]
      [] fw = "file"   -> [raised |-> TRUE, fwDir |-> "file", dst |-> d]

\* source_file.exists()
SourceExists(s) == s.exists

\* dest_file.stat().st_size
StatSize(d) == Len(d.data)

\* shutil.copy2(source_file, dest_file): opens the source, then opens the
\* destination for writing (truncating it), then copies data and metadata.
Copy2DropsLastByte(s, d, mode) ==
    IF ~s.readable \/ mode # "ok"
    THEN [raised |-> TRUE, cause |-> "EIO", dst |-> d]
    ELSE [raised |-> FALSE, cause |-> "",
          dst |-> [exists |-> TRUE,
                   data |-> SubSeq(s.data, 1, Len(s.data) - 1),
                   readable |-> TRUE]]

Copy2(s, d, mode) ==
    CASE ~s.readable ->
           [raised |-> TRUE, cause |-> "EACCES source", dst |-> d]
      [] s.readable /\ mode = "denied" ->
           [raised |-> TRUE, cause |-> "EACCES destination", dst |-> d]
      [] s.readable /\ mode = "nospace" ->
           [raised |-> TRUE, cause |-> "ENOSPC",
            dst |-> [exists |-> TRUE, data |-> <<>>, readable |-> TRUE]]
      [] s.readable /\ mode = "ok" ->
           [raised |-> FALSE, cause |-> "",
            dst |-> [exists |-> TRUE, data |-> s.data, readable |-> TRUE]]

\* ------------------------------------------------------------- the loop body
\* One iteration of "for file_info in files_to_copy": the try block and its
\* except clause.  Yields the line printed, the files afterwards, the count,
\* and whether copy2 raised.
ArtifactRemovesStale(f, s, d, mode, count) ==
    IF SourceExists(s)
    THEN LET c == Copy2(s, d, mode) IN
         IF c.raised
         THEN [line |-> ErrorLine(f, c.cause), src |-> s, dst |-> c.dst,
               count |-> count, raised |-> TRUE]
         ELSE [line |-> CopiedLine(f, StatSize(c.dst)), src |-> s, dst |-> c.dst,
               count |-> count + 1, raised |-> FALSE]
    ELSE [line |-> NotFoundLine(f), src |-> s, dst |-> NoFile,
          count |-> count, raised |-> FALSE]

ArtifactMovesSource(f, s, d, mode, count) ==
    IF SourceExists(s)
    THEN LET c == Copy2(s, d, mode) IN
         IF c.raised
         THEN [line |-> ErrorLine(f, c.cause), src |-> s, dst |-> c.dst,
               count |-> count, raised |-> TRUE]
         ELSE [line |-> CopiedLine(f, StatSize(c.dst)), src |-> NoFile, dst |-> c.dst,
               count |-> count + 1, raised |-> FALSE]
    ELSE [line |-> NotFoundLine(f), src |-> s, dst |-> d,
          count |-> count, raised |-> FALSE]

ArtifactTouchesMissing(f, s, d, mode, count) ==
    IF SourceExists(s)
    THEN LET c == Copy2(s, d, mode) IN
         IF c.raised
         THEN [line |-> ErrorLine(f, c.cause), src |-> s, dst |-> c.dst,
               count |-> count, raised |-> TRUE]
         ELSE [line |-> CopiedLine(f, StatSize(c.dst)), src |-> s, dst |-> c.dst,
               count |-> count + 1, raised |-> FALSE]
    ELSE [line |-> NotFoundLine(f), src |-> s,
          dst |-> [exists |-> TRUE, data |-> <<>>, readable |-> TRUE],
          count |-> count, raised |-> FALSE]

ArtifactCountsErrors(f, s, d, mode, count) ==
    IF SourceExists(s)
    THEN LET c == Copy2(s, d, mode) IN
         IF c.raised
         THEN [line |-> ErrorLine(f, c.cause), src |-> s, dst |-> c.dst,
               count |-> count + 1, raised |-> TRUE]
         ELSE [line |-> CopiedLine(f, StatSize(c.dst)), src |-> s, dst |-> c.dst,
               count |-> count + 1, raised |-> FALSE]
    ELSE [line |-> NotFoundLine(f), src |-> s, dst |-> d,
          count |-> count, raised |-> FALSE]

ArtifactOutcome(f, s, d, mode, count) ==
    IF SourceExists(s)
    THEN LET c == Copy2(s, d, mode) IN
         IF c.raised
         THEN [line |-> ErrorLine(f, c.cause), src |-> s, dst |-> c.dst,
               count |-> count, raised |-> TRUE]
         ELSE [line |-> CopiedLine(f, StatSize(c.dst)), src |-> s, dst |-> c.dst,
               count |-> count + 1, raised |-> FALSE]
    ELSE [line |-> NotFoundLine(f), src |-> s, dst |-> d,
          count |-> count, raised |-> FALSE]

\* Where the run continues after iteration k of the loop.
NextPc(k) == IF k < Len(files_to_copy) THEN "loop" ELSE "summary"

\* Where the run continues when the try block raised in iteration k:
\* "except Exception" catches it and the loop goes on.
AfterExceptionPropagates(k) == "raised"

AfterException(k) == NextPc(k)

\* The lines printed after the loop.
SummaryLines(count) ==
    IF count > 0
    THEN <<SummaryLine(count), ReadyLine, RuleLine>>
    ELSE <<SummaryLine(0), RuleLine>>

\* sys.exit(0 if success_count > 0 else 1)
ExitCodeInverted(count) == IF count > 0 THEN 1 ELSE 0

ExitCode(count) == IF count > 0 THEN 0 ELSE 1

\* Exit status of an interpreter that ends on an uncaught exception.
UncaughtExit(v) == IF v = "standalone" THEN 1 ELSE -1

\* ------------------------------------------------------------- initial state
Init ==
    /\ buildDir = FALSE
    /\ src = [f \in Files |-> NoFile]
    /\ fwDir = "absent"
    /\ dst = NoDst
    /\ dstMode = "ok"
    /\ pc = "idle"
    /\ variant = "standalone"
    /\ i = 0
    /\ success_count = 0
    /\ out = <<>>
    /\ exitStatus = -1
    /\ mkdirs = 0
    /\ pre = NoPre
    /\ prev = NoPrev

Resting == pc \in {"idle", "done", "raised"}

\* ------------------------------------------------------------- the run
\* Entry of copy_firmware_files: the banner.
StartRun(v) ==
    /\ Resting
    /\ variant' = v
    /\ out' = <<RuleLine, BannerLine>>
    /\ pc' = "mkdir"
    /\ i' = 0
    /\ success_count' = 0
    /\ exitStatus' = -1
    /\ mkdirs' = 0
    /\ pre' = [fwDir |-> fwDir, dst |-> dst]
    /\ prev' = IF pc = "idle" THEN NoPrev
               ELSE [valid |-> TRUE, status |-> pc, dst |-> dst, fwDir |-> fwDir,
                     count |-> success_count, exit |-> exitStatus, out |-> out]
    /\ UNCHANGED envVars

\* Path construction and mkdir succeed: the loop is entered.
MkdirOk ==
    /\ pc = "mkdir"
    /\ ~ResolveRaises(buildDir)
    /\ LET r == MkdirEffect(fwDir, dst) IN
         /\ ~r.raised
         /\ fwDir' = r.fwDir
         /\ dst' = r.dst
    /\ mkdirs' = mkdirs + 1
    /\ success_count' = 0
    /\ i' = 1
    /\ pc' = "loop"
    /\ UNCHANGED <<buildDir, src, dstMode, variant, out, exitStatus, pre, prev>>

\* Path construction or mkdir raises: nothing catches it, the run ends there.
AbortEarly ==
    /\ pc = "mkdir"
    /\ (ResolveRaises(buildDir) \/ MkdirEffect(fwDir, dst).raised)
    /\ mkdirs' = IF ResolveRaises(buildDir) THEN mkdirs ELSE mkdirs + 1
    /\ pc' = "raised"
    /\ exitStatus' = UncaughtExit(variant)
    /\ UNCHANGED <<envVars, variant, i, success_count, out, pre, prev>>

Iterate(f, o, nextpc) ==
    /\ src' = [src EXCEPT ![f] = o.src]
    /\ dst' = [dst EXCEPT ![f] = o.dst]
    /\ success_count' = o.count
    /\ out' = Append(out, o.line)
    /\ pc' = nextpc
    /\ i' = IF nextpc = "loop" THEN i + 1 ELSE i
    /\ exitStatus' = IF nextpc = "raised" THEN UncaughtExit(variant) ELSE exitStatus
    /\ UNCHANGED <<buildDir, fwDir, dstMode, variant, mkdirs, pre, prev>>

\* The source exists and copy2 returns.
CopyArtifact ==
    /\ pc = "loop"
    /\ LET f == files_to_copy[i]
           o == ArtifactOutcome(f, src[f], dst[f], dstMode, success_count)
       IN /\ SourceExists(src[f])
          /\ ~o.raised
          /\ Iterate(f, o, NextPc(i))

\* The source exists and copy2 raises.
CopyFails ==
    /\ pc = "loop"
    /\ LET f == files_to_copy[i]
           o == ArtifactOutcome(f, src[f], dst[f], dstMode, success_count)
       IN /\ SourceExists(src[f])
          /\ o.raised
          /\ Iterate(f, o, AfterException(i))

\* The source does not exist.
NotFound ==
    /\ pc = "loop"
    /\ LET f == files_to_copy[i]
           o == ArtifactOutcome(f, src[f], dst[f], dstMode, success_count)
       IN /\ ~SourceExists(src[f])
          /\ Iterate(f, o, NextPc(i))

\* The summary, the closing rule, and the return.
Summary ==
    /\ pc = "summary"
    /\ out' = out \o SummaryLines(success_count)
    /\ pc' = IF variant = "standalone" THEN "exit" ELSE "done"
    /\ UNCHANGED <<envVars, variant, i, success_count, exitStatus, mkdirs, pre, prev>>

\* The __main__ block of the standalone script.
Exit ==
    /\ pc = "exit"
    /\ exitStatus' = ExitCode(success_count)
    /\ pc' = "done"
    /\ UNCHANGED <<envVars, variant, i, success_count, out, mkdirs, pre, prev>>

\* ------------------------------------------------------------- the environment
Forget ==
    /\ pc' = "idle"
    /\ i' = 0
    /\ success_count' = 0
    /\ out' = <<>>
    /\ exitStatus' = -1
    /\ mkdirs' = 0
    /\ pre' = NoPre
    /\ prev' = NoPrev
    /\ UNCHANGED variant

\* A build writes artifact f.
Build(f, c) ==
    /\ Resting
    /\ buildDir' = TRUE
    /\ src' = [src EXCEPT ![f] = [exists |-> TRUE, data |-> c, readable |-> TRUE]]
    /\ src'[f] # src[f]
    /\ Forget
    /\ UNCHANGED <<fwDir, dst, dstMode>>

\* The build directory is removed.
CleanBuild ==
    /\ Resting
    /\ buildDir
    /\ buildDir' = FALSE
    /\ src' = [f \in Files |-> NoFile]
    /\ Forget
    /\ UNCHANGED <<fwDir, dst, dstMode>>

\* One artifact is removed from the build directory.
RemoveSource(f) ==
    /\ Resting
    /\ src[f].exists
    /\ src' = [src EXCEPT ![f] = NoFile]
    /\ Forget
    /\ UNCHANGED <<buildDir, fwDir, dst, dstMode>>

\* The read permission of an artifact is flipped.
ChmodSource(f) ==
    /\ Resting
    /\ src[f].exists
    /\ src' = [src EXCEPT ![f].readable = ~src[f].readable]
    /\ Forget
    /\ UNCHANGED <<buildDir, fwDir, dst, dstMode>>

\* The firmware/ directory becomes writable, read-only, or the disk fills up.
SetDstMode(m) ==
    /\ Resting
    /\ m # dstMode
    /\ dstMode' = m
    /\ Forget
    /\ UNCHANGED <<buildDir, src, fwDir, dst>>

\* firmware (directory or file) is removed.
RemoveFirmware ==
    /\ Resting
    /\ fwDir # "absent"
    /\ fwDir' = "absent"
    /\ dst' = NoDst
    /\ Forget
    /\ UNCHANGED <<buildDir, src, dstMode>>

\* A regular file named firmware is created in the project directory.
CreateFirmwareFile ==
    /\ Resting
    /\ fwDir = "absent"
    /\ fwDir' = "file"
    /\ Forget
    /\ UNCHANGED <<buildDir, src, dst, dstMode>>

Next ==
    \/ \E v \in Variants : StartRun(v)
    \/ MkdirOk
    \/ AbortEarly
    \/ CopyArtifact
    \/ CopyFails
    \/ NotFound
    \/ Summary
    \/ Exit
    \/ \E f \in Files, c \in Contents : Build(f, c)
    \/ CleanBuild
    \/ \E f \in Files : RemoveSource(f)
    \/ \E f \in Files : ChmodSource(f)
    \/ \E m \in DstModes : SetDstMode(m)
    \/ RemoveFirmware
    \/ CreateFirmwareFile

Spec == Init /\ [][Next]_vars

\* ------------------------------------------------------------- vocabulary
FW == "firmware.bin"

FS == "spiffs.bin"

Other(f) == IF f = FW THEN FS ELSE FW

\* A run has ended, by returning or by an uncaught exception.
Finished == pc \in {"done", "raised"}

\* The run has passed the mkdir call.
PastMkdir == pc \in {"loop", "summary", "exit", "done", "raised"}

InLoopOrAfter == pc \in {"loop", "summary", "exit", "done"}

CountKind(kind) == Cardinality({k \in 1..Len(out) : out[k].kind = kind})

Readable(f) == src[f].exists /\ src[f].readable

\* copy2 of artifact f raises in the current file system.
CopyRaises(f) == src[f].exists /\ (~src[f].readable \/ dstMode # "ok")

Copyable(f) == src[f].exists /\ src[f].readable /\ dstMode = "ok"

Copyables == {f \in Files : Copyable(f)}

IsCopyOf(f) == dst[f].exists /\ dst[f].data = src[f].data

\* The line the run prints for artifact f in the current file system.
ExpectedKind(f) ==
    IF ~src[f].exists THEN "notfound"
    ELSE IF CopyRaises(f) THEN "error" ELSE "copied"

\* ------------------------------------------------------------- claims

\* C1: when the standalone command has ended, its exit status is 0 exactly
\* when the success count is greater than 0 (at least one "copied" line was
\* printed), and 1 otherwise.
C1_ExitStatus ==
    (variant = "standalone" /\ Finished) =>
        /\ exitStatus \in {0, 1}
        /\ (exitStatus = 0 <=> success_count > 0)
        /\ (exitStatus = 0 <=> CountKind("copied") > 0)

C1_Witness ==
    /\ variant = "standalone" /\ pc = "done"
    /\ exitStatus = 0 /\ success_count = 1
    /\ CountKind("error") = 1

\* C2 as stated: whenever both sources exist and are readable, the ended run
\* has copied both, both destinations exist with the sources' lengths, and
\* the count is 2.
C2_Original ==
    (Finished /\ Readable(FW) /\ Readable(FS)) =>
        /\ pc = "done"
        /\ success_count = 2
        /\ \A f \in Files : dst[f].exists /\ Len(dst[f].data) = Len(src[f].data)

\* C2 amended: whenever both sources exist and are readable, firmware/ can
\* be ensured (it was not a regular file) and writes into it succeed, the
\* ended run has copied both, both destinations hold the sources' bytes,
\* two "copied" lines carry the sizes, and the count is 2.
C2_BothCopied ==
    (Finished /\ Readable(FW) /\ Readable(FS) /\ pre.fwDir # "file" /\ dstMode = "ok") =>
        /\ pc = "done"
        /\ success_count = 2
        /\ \A f \in Files :
             /\ dst[f].exists
             /\ Len(dst[f].data) = Len(src[f].data)
             /\ dst[f].data = src[f].data
        /\ out[3] = CopiedLine(FW, Len(src[FW].data))
        /\ out[4] = CopiedLine(FS, Len(src[FS].data))

C2_Witness ==
    /\ pc = "done" /\ success_count = 2
    /\ Readable(FW) /\ Readable(FS)
    /\ Len(src[FW].data) # Len(src[FS].data)
    /\ pre.fwDir = "absent"

\* C3 as stated, in the case where the one existing source is copied without
\* error: the ended run has created that destination file, the other
\* destination file is absent, the count is 1 and the status is success,
\* whatever firmware/ held before the run.
C3_Original ==
    \A f \in Files :
        (Finished /\ Copyable(f) /\ ~src[Other(f)].exists /\ pre.fwDir # "file") =>
            /\ pc = "done"
            /\ dst[f].exists
            /\ ~dst[Other(f)].exists
            /\ success_count = 1
            /\ (variant = "standalone" => exitStatus = 0)

\* C3 amended: whenever exactly one source exists and its copy goes through
\* (the source is readable, firmware/ can be ensured and is writable), the
\* ended run has written that one destination file, has left the other
\* destination file as it was before the run (absent only if it was absent
\* before), the count is 1 and the status is success.
C3_PartialSuccess ==
    \A f \in Files :
        (Finished /\ Copyable(f) /\ ~src[Other(f)].exists /\ pre.fwDir # "file") =>
            /\ pc = "done"
            /\ IsCopyOf(f)
            /\ dst[Other(f)] = pre.dst[Other(f)]
            /\ success_count = 1
            /\ CountKind("copied") = 1 /\ CountKind("notfound") = 1
            /\ (variant = "standalone" => exitStatus = 0)

C3_Witness ==
    /\ pc = "done" /\ success_count = 1
    /\ Copyable(FW) /\ ~src[FS].exists
    /\ pre.dst[FS].exists /\ dst[FS].exists

\* C4 as stated: whenever neither source exists, the ended run has created
\* or modified no destination file, has printed two "not found" lines, the
\* count is 0 and the standalone exit status is 1.
C4_Original ==
    (Finished /\ ~src[FW].exists /\ ~src[FS].exists) =>
        /\ dst = pre.dst
        /\ CountKind("notfound") = 2
        /\ success_count = 0
        /\ (variant = "standalone" => exitStatus = 1)

\* C4 amended: whenever neither source exists, the ended run has created or
\* modified no destination file, the count is 0 and the standalone exit
\* status is 1; the two "not found" lines are printed when the run reaches
\* the loop, that is unless firmware existed as a regular file, in which
\* case mkdir raises and no artifact line is printed.
C4_NothingCopied ==
    (Finished /\ ~src[FW].exists /\ ~src[FS].exists) =>
        /\ dst = pre.dst
        /\ success_count = 0
        /\ CountKind("copied") = 0 /\ CountKind("error") = 0
        /\ (variant = "standalone" => exitStatus = 1)
        /\ (pre.fwDir # "file" =>
              /\ pc = "done"
              /\ out[3] = NotFoundLine(FW) /\ out[4] = NotFoundLine(FS)
              /\ CountKind("notfound") = 2)
        /\ (pre.fwDir = "file" => pc = "raised" /\ CountKind("notfound") = 0)

C4_Witness ==
    /\ pc = "done" /\ variant = "standalone" /\ exitStatus = 1
    /\ ~src[FW].exists /\ ~src[FS].exists
    /\ CountKind("notfound") = 2
    /\ pre.dst[FW].exists /\ dst[FW] = pre.dst[FW]

\* C5: an exception raised by copy2 never leaves the loop (a run only ends
\* by an exception before the loop); in a completed run every artifact has
\* its own line, decided by that artifact alone: an error line with the
\* cause where copy2 raised, a copied line where it returned, a not-found
\* line where the source is missing; the count is the number of artifacts
\* copy2 returned for; the summary line follows.
C5_ErrorsIsolated ==
    /\ (pc = "raised" => i = 0 /\ Len(out) = 2)
    /\ (pc = "loop" /\ i = 2 => out[3].file = FW /\ out[3].kind = ExpectedKind(FW))
    /\ (pc \in {"summary", "exit", "done"} =>
          /\ \A k \in 1..2 :
               /\ out[2 + k].file = files_to_copy[k]
               /\ out[2 + k].kind = ExpectedKind(files_to_copy[k])
               /\ (out[2 + k].kind = "error" => out[2 + k].cause # "")
          /\ success_count = Cardinality(Copyables))
    /\ (pc \in {"exit", "done"} => out[5] = SummaryLine(success_count))

C5_Witness ==
    /\ pc = "done"
    /\ out[3].kind = "error" /\ out[3].file = FW
    /\ out[4].kind = "copied" /\ out[4].file = FS
    /\ success_count = 1

\* C6 as stated: when the build directory does not exist, the run is
\* aborted before any artifact is examined: once past path construction and
\* mkdir it has raised and printed nothing but the banner.
C6_Original ==
    (PastMkdir /\ ~buildDir) => (pc = "raised" /\ Len(out) = 2)

\* C6 amended: a missing build directory does not abort the run: the run
\* ensures firmware/, examines both artifacts and reports each as not
\* found, with count 0.  The only early abort is firmware_dir.mkdir raising
\* because firmware exists as a non-directory; it happens before any
\* artifact is examined: only the banner has been printed, no destination
\* file has changed, and nothing later in the run raises.
C6_AbortOnlyAtMkdir ==
    /\ (pc = "raised" =>
          /\ pre.fwDir = "file"
          /\ i = 0 /\ mkdirs = 1
          /\ out = <<RuleLine, BannerLine>>
          /\ dst = pre.dst /\ fwDir = pre.fwDir
          /\ success_count = 0)
    /\ (InLoopOrAfter => pre.fwDir # "file")
    /\ (pc = "done" /\ ~buildDir =>
          /\ out[3] = NotFoundLine(FW) /\ out[4] = NotFoundLine(FS)
          /\ success_count = 0)

C6_Witness ==
    /\ pc = "raised" /\ pre.fwDir = "file"
    /\ buildDir /\ Copyable(FW) /\ Copyable(FS)

C8_DirEnsured ==
    /\ (pc = "mkdir" => mkdirs = 0)
    /\ (PastMkdir => mkdirs = 1)
    /\ (InLoopOrAfter => fwDir = "dir")
    /\ (PastMkdir /\ pre.fwDir = "absent" =>
          /\ pc # "raised" /\ fwDir = "dir"
          /\ (pc \in {"summary", "exit", "done"} =>
                \A f \in Files : Copyable(f) => IsCopyOf(f)))
    /\ (PastMkdir /\ pre.fwDir = "dir" =>
          /\ pc # "raised" /\ fwDir = "dir"
          /\ (pc = "loop" =>
                \A k \in i..Len(files_to_copy) :
                    dst[files_to_copy[k]] = pre.dst[files_to_copy[k]]))

C8_Witness ==
    /\ pc = "done" /\ pre.fwDir = "absent" /\ fwDir = "dir"
    /\ IsCopyOf(FW) /\ success_count >= 1

\* C9: a run that reaches the loop handles firmware.bin and then spiffs.bin,
\* each once: after the two banner lines the report holds exactly one
\* outcome line for each artifact handled so far, in that order, and none
\* for the others; the summary follows the two outcome lines; the count is
\* the number of copied lines at every moment, and the summary carries it.
C9_OneLinePerArtifact ==
    /\ (pc # "idle" => Len(out) >= 2 /\ out[1] = RuleLine /\ out[2] = BannerLine)
    /\ (pc = "loop" => i \in 1..2)
    /\ (InLoopOrAfter =>
          /\ success_count = CountKind("copied")
          /\ \A k \in 1..2 :
               LET handled == pc # "loop" \/ k < i
                   lines == {n \in 1..Len(out) :
                               /\ out[n].file = files_to_copy[k]
                               /\ out[n].kind \in {"copied", "notfound", "error"}}
               IN  /\ lines = (IF handled THEN {2 + k} ELSE {})
                   /\ files_to_copy[k] = (IF k = 1 THEN FW ELSE FS)
          /\ (pc \in {"loop", "summary"} => Len(out) = 2 + CountKind("copied")
                    + CountKind("notfound") + CountKind("error")))
    /\ (pc \in {"exit", "done"} =>
          /\ out[5] = SummaryLine(success_count)
          /\ out[Len(out)] = RuleLine
          /\ Len(out) = (IF success_count > 0 THEN 7 ELSE 6)
          /\ CountKind("summary") = 1)

C9_Witness ==
    /\ pc = "done" /\ Len(out) = 7
    /\ out[3].kind = "copied" /\ out[4].kind = "notfound"
    /\ out[5].size = 1

\* C10: no step of a run changes the build directory or a source file; a
\* step of a run leaves the destination file of an artifact whose source
\* does not exist as it is; the firmware path only ever goes from absent to
\* directory.  (A step of the environment is one that leaves pc at "idle".)
C10_Frame ==
    [][pc' # "idle" =>
          /\ buildDir' = buildDir
          /\ src' = src
          /\ dstMode' = dstMode
          /\ \A f \in Files : (~src[f].exists /\ fwDir = "dir") => dst'[f] = dst[f]
          /\ (fwDir' = fwDir \/ (fwDir = "absent" /\ fwDir' = "dir"))]_vars

C10_Witness ==
    /\ pc = "done"
    /\ ~src[FW].exists /\ ~src[FS].exists
    /\ pre.dst[FW].exists /\ pre.dst[FS].exists
    /\ dst = pre.dst

TypeOK ==
    /\ buildDir \in BOOLEAN
    /\ fwDir \in {"absent", "dir", "file"}
    /\ dstMode \in DstModes
    /\ pc \in {"idle", "mkdir", "loop", "summary", "exit", "done", "raised"}
    /\ variant \in Variants
    /\ \A f \in Files : src[f].data \in Contents /\ dst[f].data \in Contents
    /\ (~buildDir => \A f \in Files : ~src[f].exists)
    /\ (fwDir # "dir" => dst = NoDst)
====
